---------------------------- MODULE Spec2Model ----------------------------
(***************************************************************************)
(* Address normaliser (soln.py): three parsers (parse_xml, parse_tsv,      *)
(* parse_txt) turn input files into address dictionaries; main extends one *)
(* accumulator with each file's addresses in argument order, sorts it by   *)
(* the zip key and dumps it to output.json.                                *)
(*                                                                         *)
(* A Python str is a sequence of one-character strings, so that strip,     *)
(* split, replace, join, endswith and the comparison of str are computed   *)
(* on characters.  A dict is a function whose DOMAIN is its set of keys.   *)
(***************************************************************************)
EXTENDS Integers, Sequences, FiniteSets, TLC

\* ------------------------------------------------------------------------
\* Bounds of the model
\* ------------------------------------------------------------------------
MaxFiles == 3   \* most paths on a command line over the fixed files

\* ------------------------------------------------------------------------
\* Python values
\* ------------------------------------------------------------------------
\* None: a value that is no str (a str holds one-character elements only).
None == <<"None">>

\* bool(v) of a value that is None or a str.
Truthy(v) == v # None /\ v # <<>>

\* The empty dict.
EmptyDict == <<>>

\* d[k] = v on a dict.
Put(d, k, v) == (k :> v) @@ d

\* d.get(k, default)
Get(d, k, default) == IF k \in DOMAIN d THEN d[k] ELSE default

\* The result of a call: a returned value, or a raised exception.
Ok(v) == [ok |-> TRUE, val |-> v, exc |-> "none"]
Raise(e) == [ok |-> FALSE, val |-> <<>>, exc |-> e]

\* ------------------------------------------------------------------------
\* str operations
\* ------------------------------------------------------------------------
\* The characters the inputs use, in ascending code-point order.
CodePointOrder ==
  << "\t", "\n", " ", ",", "-", ".", "/",
     "0", "1", "2", "3", "4", "5", "6", "7", "8", "9",
     "A", "B", "C", "D", "I", "L", "M", "N", "O", "S", "T", "U", "X", "Y",
     "a", "c", "d", "e", "l", "m", "o", "s", "t", "v", "x" >>

\* The rank of a character: ord(c) up to an order-preserving renumbering.
Ord(c) == CHOOSE k \in 1..Len(CodePointOrder) : CodePointOrder[k] = c

\* str.isspace() of one character.
IsSpace(c) == c \in {" ", "\t", "\n", "\r"}

SetMin(S) == CHOOSE x \in S : \A y \in S : x <= y
SetMax(S) == CHOOSE x \in S : \A y \in S : x >= y

\* s.strip()
strip(s) ==
  LET keep == {k \in 1..Len(s) : ~IsSpace(s[k])}
  IN  IF keep = {} THEN <<>> ELSE SubSeq(s, SetMin(keep), SetMax(keep))

\* Whether sub occurs in s at position k.
OccursAt(s, sub, k) ==
  /\ k >= 1
  /\ k + Len(sub) - 1 <= Len(s)
  /\ SubSeq(s, k, k + Len(sub) - 1) = sub

\* s.find(sub) + 1: the first position of sub in s, 0 when there is none.
find(s, sub) ==
  LET at == {k \in 1..Len(s) : OccursAt(s, sub, k)}
  IN  IF at = {} THEN 0 ELSE SetMin(at)

\* sub in s
contains(s, sub) == find(s, sub) # 0

\* s.endswith(suffix)
endswith(s, suffix) == OccursAt(s, suffix, Len(s) - Len(suffix) + 1)

RECURSIVE split(_, _)
\* s.split(sep), sep a non-empty str.
split(s, sep) ==
  LET k == find(s, sep)
  IN  IF k = 0 THEN <<s>>
      ELSE <<SubSeq(s, 1, k - 1)>> \o split(SubSeq(s, k + Len(sep), Len(s)), sep)

RECURSIVE replace(_, _, _)
\* s.replace(old, new), old a non-empty str.
replace(s, old, new) ==
  LET k == find(s, old)
  IN  IF k = 0 THEN s
      ELSE SubSeq(s, 1, k - 1) \o new
             \o replace(SubSeq(s, k + Len(old), Len(s)), old, new)

RECURSIVE join(_, _)
\* sep.join(parts)
join(sep, parts) ==
  IF parts = <<>> THEN <<>>
  ELSE IF Len(parts) = 1 THEN parts[1]
  ELSE parts[1] \o sep \o join(sep, Tail(parts))

\* a < b on str: the first differing character decides, a proper prefix is
\* smaller.
StrLess(a, b) ==
  \E k \in 1..(Len(b)) :
     /\ k <= Len(a) + 1
     /\ SubSeq(a, 1, k - 1) = SubSeq(b, 1, k - 1)
     /\ \/ k = Len(a) + 1
        \/ Ord(a[k]) < Ord(b[k])

\* The first exception of a sequence of evaluations ("none" when none raises).
FirstExc(excs) ==
  LET bad == {k \in 1..Len(excs) : excs[k] # "none"}
  IN  IF bad = {} THEN "none" ELSE excs[SetMin(bad)]


\* ------------------------------------------------------------------------
\* parse_xml.  A document is [type, wellformed, ents]: ents is what
\* root.findall('.//ENT') returns, each entity a function from the tags of
\* its children to their .text (None for an element without text).
\* ------------------------------------------------------------------------
\* Evaluating ent.find(tag).text.strip(): find gives None for a missing
\* child and None has no .text; a child without text has .text None and None
\* has no .strip.
TextStripExc(ent, tag) ==
  IF tag \notin DOMAIN ent \/ ent[tag] = None THEN "AttributeError" ELSE "none"

\* Evaluating "ent.find(tag).text.strip() if ent.find(tag).text else ...":
\* only a missing child raises.
TextIfExc(ent, tag) ==
  IF tag \notin DOMAIN ent THEN "AttributeError" ELSE "none"

\* Evaluating the filter of the STREET_i comprehension: a present child
\* without text raises on .strip().
StreetIExc(ent, tag) ==
  IF tag \in DOMAIN ent /\ ent[tag] = None THEN "AttributeError" ELSE "none"

\* The exception the loop body raises on an entity, in statement order.
xml_exc(ent) ==
  FirstExc(<< TextIfExc(ent, "NAME"), TextIfExc(ent, "COMPANY"),
              StreetIExc(ent, "STREET_2"), StreetIExc(ent, "STREET_3"),
              TextStripExc(ent, "STREET"), TextStripExc(ent, "CITY"),
              TextStripExc(ent, "STATE"), TextStripExc(ent, "POSTAL_CODE"),
              TextIfExc(ent, "COUNTRY") >>)

\* ent.find(tag).text.strip() if ent.find(tag).text else default
TextOr(ent, tag, default) ==
  IF Truthy(ent[tag]) THEN strip(ent[tag]) ELSE default

\* The name / organization keys of an entity's address.
xml_identity(ent) ==
  LET name    == TextOr(ent, "NAME", <<>>)
      company == TextOr(ent, "COMPANY", <<>>)
  IN  IF Truthy(name) THEN Put(EmptyDict, "name", strip(name))
      ELSE IF Truthy(company) THEN Put(EmptyDict, "organization", company)
      ELSE EmptyDict

\* The STREET_2, STREET_3 texts that are present and not empty, stripped.
xml_streets(ent) ==
  LET one(tag) == IF tag \in DOMAIN ent /\ Truthy(strip(ent[tag]))
                  THEN <<strip(ent[tag])>> ELSE <<>>
  IN  one("STREET_2") \o one("STREET_3")

\* The optional country key.
xml_country(ent, address) ==
  LET country == TextOr(ent, "COUNTRY", None)
  IN  IF Truthy(country) THEN Put(address, "country", country) ELSE address

\* The address built from an entity the loop body does not raise on.
xml_address(ent) ==
  LET a1 == xml_identity(ent)
      a2 == Put(a1, "street",
                join(<<" ">>, <<strip(ent["STREET"])>> \o xml_streets(ent)))
      a3 == Put(a2, "city", strip(ent["CITY"]))
      a4 == Put(a3, "state", strip(ent["STATE"]))
      a5 == Put(a4, "zip", split(strip(ent["POSTAL_CODE"]), <<" ", "-">>)[1])
  IN  xml_country(ent, a5)

\* The exception of the first item of a file the loop body raises on.
LoopExc(excs) == FirstExc(excs)

parse_xml(doc) ==
  IF doc.type = "nofile" THEN Raise("FileNotFoundError")
  ELSE IF ~doc.wellformed THEN Raise("ParseError")
  ELSE IF LoopExc([k \in 1..Len(doc.ents) |-> xml_exc(doc.ents[k])]) # "none"
       THEN Raise(LoopExc([k \in 1..Len(doc.ents) |-> xml_exc(doc.ents[k])]))
  ELSE Ok([k \in 1..Len(doc.ents) |-> xml_address(doc.ents[k])])

\* ------------------------------------------------------------------------
\* parse_tsv.  A file is [type, header, rows]: header the cells of the
\* first line, rows the cells of each later line, as csv.reader splits
\* them.
\* ------------------------------------------------------------------------
\* csv.DictReader: the row as a dict over the field names; a short row has
\* None (restval) for the fields it lacks.
DictRow(header, cells) ==
  [f \in {header[k] : k \in 1..Len(header)} |->
     LET k == CHOOSE j \in 1..Len(header) : header[j] = f
     IN  IF k <= Len(cells) THEN cells[k] ELSE None]

\* The dicts DictReader yields: blank lines are skipped.
DictReader(file) ==
  LET data == SelectSeq(file.rows, LAMBDA cells : cells # <<>>)
  IN  [k \in 1..Len(data) |-> DictRow(file.header, data[k])]

\* Evaluating row[k]
KeyExc(row, k) == IF k \notin DOMAIN row THEN "KeyError" ELSE "none"

\* Evaluating row[k].strip()
KeyStripExc(row, k) ==
  IF k \notin DOMAIN row THEN "KeyError"
  ELSE IF row[k] = None THEN "AttributeError" ELSE "none"

\* The exception the loop body raises on a row, in statement order.
tsv_exc(row) ==
  FirstExc(
    << KeyExc(row, "organization") >>
    \o (IF "organization" \in DOMAIN row /\ row["organization"] = <<"N", "/", "A">>
        THEN << KeyExc(row, "first"), KeyExc(row, "middle"), KeyExc(row, "last"),
                KeyStripExc(row, "first"), KeyStripExc(row, "middle"),
                KeyStripExc(row, "last") >>
        ELSE << >>)
    \o << KeyStripExc(row, "address") >>
    \o (IF Get(row, "county", None) # <<>>
        THEN << KeyStripExc(row, "county") >> ELSE << >>)
    \o << KeyStripExc(row, "city"), KeyStripExc(row, "state"),
          KeyExc(row, "zip4"), KeyStripExc(row, "zip") >>)

\* The name / organization keys of a row's address.
tsv_identity(row) ==
  IF row["organization"] # <<"N", "/", "A">>
  THEN Put(EmptyDict, "organization", row["organization"])
  ELSE LET name_parts == << strip(row["first"]), strip(row["middle"]),
                            strip(row["last"]) >>
       IN  Put(EmptyDict, "name",
               join(<<" ">>, SelectSeq(name_parts, LAMBDA x : Truthy(x))))

\* The optional county key.
tsv_county(row, address) ==
  IF Get(row, "county", None) # <<>>
  THEN Put(address, "county", strip(row["county"]))
  ELSE address

\* The zip key: zip-zip4 when row['zip4'] is truthy, zip alone otherwise.
tsv_zip(row) ==
  IF Truthy(row["zip4"])
  THEN strip(row["zip"]) \o <<"-">> \o strip(row["zip4"])
  ELSE strip(row["zip"])

\* The address built from a row the loop body does not raise on.
tsv_address(row) ==
  LET a1 == tsv_identity(row)
      a2 == Put(a1, "street", strip(row["address"]))
      a3 == tsv_county(row, a2)
      a4 == Put(a3, "city", strip(row["city"]))
      a5 == Put(a4, "state", strip(row["state"]))
  IN  Put(a5, "zip", tsv_zip(row))

parse_tsv(file) ==
  IF file.type = "nofile" THEN Raise("FileNotFoundError")
  ELSE LET reader == DictReader(file)
       IN  IF LoopExc([k \in 1..Len(reader) |-> tsv_exc(reader[k])]) # "none"
           THEN Raise(LoopExc([k \in 1..Len(reader) |-> tsv_exc(reader[k])]))
           ELSE Ok([k \in 1..Len(reader) |-> tsv_address(reader[k])])

\* ------------------------------------------------------------------------
\* parse_txt.  A file is [type, text]: text is what file.read() returns.
\* ------------------------------------------------------------------------
COUNTY == <<"C", "O", "U", "N", "T", "Y">>

\* The blocks of the file: file.read().strip().split('\n\n')
txt_blocks(text) == split(strip(text), <<"\n", "\n">>)

\* The city/state/zip line of a block, split on ','.  Needs Len(lines) >= 3.
txt_city_state_zip(lines) ==
  IF contains(lines[3], COUNTY)
  THEN split(lines[4], <<",">>)
  ELSE split(lines[3], <<",">>)

\* The exception the loop body raises on a block, in statement order: every
\* one is the IndexError of a list index out of range.
txt_exc(block) ==
  LET lines == split(block, <<"\n">>)
  IN  IF Len(lines) < 3 THEN "IndexError"
      ELSE IF contains(lines[3], COUNTY) /\ Len(lines) < 4 THEN "IndexError"
      ELSE IF Len(txt_city_state_zip(lines)) < 2 THEN "IndexError"
      ELSE IF Len(split(strip(txt_city_state_zip(lines)[2]), <<" ">>)) < 2
           THEN "IndexError"
      ELSE "none"

\* The name key of a block's address.
txt_name(name_line) ==
  IF contains(name_line, <<",">>)
  THEN replace(name_line, <<",">>, <<>>)
  ELSE strip(name_line)

\* The optional county key.
txt_county(lines, address) ==
  IF contains(lines[3], COUNTY)
  THEN Put(address, "county", strip(replace(lines[3], COUNTY, <<>>)))
  ELSE address

\* The address built from a block the loop body does not raise on.
txt_address(block) ==
  LET lines          == split(block, <<"\n">>)
      city_state_zip == txt_city_state_zip(lines)
      state_zip      == split(strip(city_state_zip[2]), <<" ">>)
      a1 == Put(EmptyDict, "name", txt_name(lines[1]))
      a2 == Put(a1, "street", strip(lines[2]))
      a3 == txt_county(lines, a2)
      a4 == Put(a3, "city", strip(city_state_zip[1]))
      a5 == Put(a4, "state", strip(state_zip[1]))
  IN  Put(a5, "zip", strip(state_zip[2]))

parse_txt(file) ==
  IF file.type = "nofile" THEN Raise("FileNotFoundError")
  ELSE LET content == txt_blocks(file.text)
       IN  IF LoopExc([k \in 1..Len(content) |-> txt_exc(content[k])]) # "none"
           THEN Raise(LoopExc([k \in 1..Len(content) |-> txt_exc(content[k])]))
           ELSE Ok([k \in 1..Len(content) |-> txt_address(content[k])])

\* ------------------------------------------------------------------------
\* The sort of main: file_paths.sort(key=lambda x: x.get('zip', '99999')).
\* list.sort compares keys with < only and is stable; on a list this short
\* it is a binary insertion sort, which puts an element behind the elements
\* of the sorted prefix whose key is not greater than its own.
\* ------------------------------------------------------------------------
DefaultZip == <<"9", "9", "9", "9", "9">>

\* The sort key of an address.
SortKey(x) == Get(x, "zip", DefaultZip)

\* An insertion in front of the elements of equal key: a sort that is not
\* stable.
InsertSortedBeforeEqual(sorted, x) ==
  LET behind == {k \in 1..Len(sorted) : StrLess(SortKey(sorted[k]), SortKey(x))}
      n      == IF behind = {} THEN 0 ELSE SetMax(behind)
  IN  SubSeq(sorted, 1, n) \o <<x>> \o SubSeq(sorted, n + 1, Len(sorted))

\* The place of x in the sorted list: behind every element that x is not
\* smaller than.
InsertSorted(sorted, x) ==
  LET behind == {k \in 1..Len(sorted) : ~StrLess(SortKey(x), SortKey(sorted[k]))}
      n      == IF behind = {} THEN 0 ELSE SetMax(behind)
  IN  SubSeq(sorted, 1, n) \o <<x>> \o SubSeq(sorted, n + 1, Len(sorted))

RECURSIVE sort(_)
sort(list) ==
  IF list = <<>> THEN <<>>
  ELSE InsertSorted(sort(SubSeq(list, 1, Len(list) - 1)), list[Len(list)])

\* ------------------------------------------------------------------------
\* main.  State: the command line, the files it names, and the run.
\* ------------------------------------------------------------------------
VARIABLES
  argv,        \* args.files: the paths, in argument order
  fs,          \* what each path holds
  i,           \* the index into argv of the for loop
  file_paths,  \* the accumulator of addresses
  pc,          \* "loop", "save" (after the sort), "done", "exited"
  stderr,      \* the messages written to sys.stderr, in order
  exit_code,   \* the exit status of the process
  output,      \* output.json: whether written, and the list dumped
  opened       \* the paths handed to a parser, in order

vars == <<argv, fs, i, file_paths, pc, stderr, exit_code, output, opened>>

XmlSuffix == <<".", "x", "m", "l">>
TsvSuffix == <<".", "t", "s", "v">>
TxtSuffix == <<".", "t", "x", "t">>

\* The branch of the if / elif chain a path takes.
Dispatch(path) ==
  IF endswith(path, XmlSuffix) THEN "xml"
  ELSE IF endswith(path, TsvSuffix) THEN "tsv"
  ELSE IF endswith(path, TxtSuffix) THEN "txt"
  ELSE "unsupported"

\* The parser call of the branch taken by a supported path.
ParsePath(path) ==
  IF Dispatch(path) = "xml" THEN parse_xml(fs[path])
  ELSE IF Dispatch(path) = "tsv" THEN parse_tsv(fs[path])
  ELSE parse_txt(fs[path])

NotWritten == [written |-> FALSE, data |-> <<>>]

\* The iteration with an assignment in place of extend.
ProcessFileAssign ==
  /\ pc = "loop"
  /\ i <= Len(argv)
  /\ Dispatch(argv[i]) # "unsupported"
  /\ ParsePath(argv[i]).ok
  /\ file_paths' = ParsePath(argv[i]).val
  /\ opened' = Append(opened, argv[i])
  /\ i' = i + 1
  /\ UNCHANGED <<argv, fs, pc, stderr, exit_code, output>>

\* One iteration of the loop on a supported path whose parser returns:
\* file_paths.extend(...).
ProcessFile ==
  /\ pc = "loop"
  /\ i <= Len(argv)
  /\ Dispatch(argv[i]) # "unsupported"
  /\ ParsePath(argv[i]).ok
  /\ file_paths' = file_paths \o ParsePath(argv[i]).val
  /\ opened' = Append(opened, argv[i])
  /\ i' = i + 1
  /\ UNCHANGED <<argv, fs, pc, stderr, exit_code, output>>

\* The except clause without sys.exit(1): the loop goes on.
ProcessFileErrorContinue ==
  /\ pc = "loop"
  /\ i <= Len(argv)
  /\ Dispatch(argv[i]) # "unsupported"
  /\ ~ParsePath(argv[i]).ok
  /\ opened' = Append(opened, argv[i])
  /\ stderr' = Append(stderr, [msg |-> "Error processing", path |-> argv[i],
                               cause |-> ParsePath(argv[i]).exc])
  /\ i' = i + 1
  /\ UNCHANGED <<argv, fs, pc, file_paths, exit_code, output>>

\* One iteration on a supported path whose parser raises: the except clause
\* reports the path and the cause and calls sys.exit(1).
ProcessFileError ==
  /\ pc = "loop"
  /\ i <= Len(argv)
  /\ Dispatch(argv[i]) # "unsupported"
  /\ ~ParsePath(argv[i]).ok
  /\ opened' = Append(opened, argv[i])
  /\ stderr' = Append(stderr, [msg |-> "Error processing", path |-> argv[i],
                               cause |-> ParsePath(argv[i]).exc])
  /\ exit_code' = 1
  /\ pc' = "exited"
  /\ UNCHANGED <<argv, fs, i, file_paths, output>>

\* The else branch with sys.exit(1) in place of continue.
SkipUnsupportedExit ==
  /\ pc = "loop"
  /\ i <= Len(argv)
  /\ Dispatch(argv[i]) = "unsupported"
  /\ stderr' = Append(stderr, [msg |-> "Unsupported file format", path |-> argv[i],
                               cause |-> "none"])
  /\ exit_code' = 1
  /\ pc' = "exited"
  /\ UNCHANGED <<argv, fs, i, file_paths, output, opened>>

\* One iteration on a path of no supported suffix: the else branch writes
\* the message and continues with the next path.
SkipUnsupported ==
  /\ pc = "loop"
  /\ i <= Len(argv)
  /\ Dispatch(argv[i]) = "unsupported"
  /\ stderr' = Append(stderr, [msg |-> "Unsupported file format", path |-> argv[i],
                               cause |-> "none"])
  /\ i' = i + 1
  /\ UNCHANGED <<argv, fs, file_paths, pc, exit_code, output, opened>>

\* After the loop: file_paths.sort(key=...).
SortAddresses ==
  /\ pc = "loop"
  /\ i > Len(argv)
  /\ file_paths' = sort(file_paths)
  /\ pc' = "save"
  /\ UNCHANGED <<argv, fs, i, stderr, exit_code, output, opened>>

\* json.dump(file_paths, f, indent=2) into output.json; main returns.
SaveOutput ==
  /\ pc = "save"
  /\ output' = [written |-> TRUE, data |-> file_paths]
  /\ pc' = "done"
  /\ UNCHANGED <<argv, fs, i, file_paths, stderr, exit_code, opened>>

Next ==
  \/ ProcessFile
  \/ ProcessFileError
  \/ SkipUnsupported
  \/ SortAddresses
  \/ SaveOutput

\* ------------------------------------------------------------------------
\* Inputs: the command lines and file contents the runs are checked on.
\* ------------------------------------------------------------------------
XmlPath   == <<"a", ".", "x", "m", "l">>
TsvPath   == <<"t", ".", "t", "s", "v">>
TxtPath   == <<"d", ".", "t", "x", "t">>
UpperPath == <<"a", ".", "X", "M", "L">>   \* no supported suffix: the match is case-sensitive
BadXmlPath == <<"b", ".", "x", "m", "l">>  \* not well-formed
ShortTxtPath == <<"s", ".", "t", "x", "t">>  \* a block of two lines
NoTsvPath == <<"m", ".", "t", "s", "v">>   \* no such file
Paths == {XmlPath, TsvPath, TxtPath, UpperPath, BadXmlPath, ShortTxtPath, NoTsvPath}

NoFile == [type |-> "nofile"]

\* A child an entity does not have.
Absent == <<"Absent">>

\* The tags of the children parse_xml reads.
Tags ==
  <<"NAME", "COMPANY", "STREET", "STREET_2", "STREET_3", "CITY", "STATE",
    "POSTAL_CODE", "COUNTRY">>

\* The entity whose children have the given texts, in the order of Tags,
\* without the children whose text is Absent.
MkEnt(texts) ==
  [t \in {Tags[k] : k \in {j \in 1..Len(Tags) : texts[j] # Absent}} |->
     texts[CHOOSE k \in 1..Len(Tags) : Tags[k] = t]]

SeqsUpTo(S, n) == UNION {[1..k -> S] : k \in 0..n}

XmlDoc(ents) == [type |-> "xml", wellformed |-> TRUE, ents |-> ents]
Malformed == [type |-> "xml", wellformed |-> FALSE, ents |-> <<>>]
TsvFile(header, rows) == [type |-> "tsv", header |-> header, rows |-> rows]
TxtFile(text) == [type |-> "txt", text |-> text]

EntA ==
  MkEnt(<<<<"A", "l">>, None, <<"1", " ", "M">>,
          Absent, Absent, <<"X">>,
          <<"I", "L">>, <<"1", "0">>, None>>)
EntB ==
  MkEnt(<<None, <<"C", "o">>, <<"2", " ", "M">>,
          <<"B">>, Absent, <<"X">>,
          <<"I", "L">>, <<"9", " ", "-", "1">>, <<"U", "S">>>>)

FullHeader ==
  <<"first", "middle", "last", "organization", "address", "city", "state",
    "county", "zip", "zip4">>

\* The cells of a data line under FullHeader.
Cells(first, middle, last, organization, county, zip, zip4) ==
  <<first, middle, last, organization, <<"3", " ", "M">>, <<"X">>, <<"I", "L">>,
    county, zip, zip4>>

NA == <<"N", "/", "A">>
RowA == Cells(<<"A", "l">>, <<>>, <<"L", "o">>, NA, <<>>, <<"1", "0">>, <<"1">>)
RowB == Cells(<<>>, <<>>, <<>>, <<"C", "o">>, <<"O", "x">>, <<"9">>, <<>>)

BlockA == <<"A", "l", " ", "L", "o", "\n", "4", " ", "M", "\n", "X", ",", " ", "I", "L", " ", "1", "0">>
BlockB ==
  <<"L", "o", ",", " ", "A", "l", "\n", "5", " ", "M", "\n", "O", "X", " ", "C", "O", "U", "N", "T", "Y", "\n", "X", ",", " ", "I", "L", " ", "9">>
BlockShort == <<"A", "l", " ", "L", "o", "\n", "4", " ", "M">>

\* The fixed files: two addresses in each readable file, with zips that tie
\* across files.
FixedFs ==
  (XmlPath :> XmlDoc(<<EntA, EntB>>))
  @@ (TsvPath :> TsvFile(FullHeader, <<RowA, RowB>>))
  @@ (TxtPath :> TxtFile(join(<<"\n", "\n">>, <<BlockB, BlockA>>)))
  @@ (UpperPath :> XmlDoc(<<EntA>>))
  @@ (BadXmlPath :> Malformed)
  @@ (ShortTxtPath :> TxtFile(BlockShort))
  @@ (NoTsvPath :> NoFile)

\* One entity per combination of the texts of its children.
RichEnts ==
  { MkEnt(<<n, c, st,
          s2, Absent, ci,
          <<"I", "L">>, pc0, co>>) :
      n   \in {Absent, None, <<" ">>, <<" ", "A", "l", " ">>},
      c   \in {None, <<" ", "C", "o", " ">>},
      st  \in {<<"1", " ", "M">>, <<" ">>},
      s2  \in {Absent, None, <<"B", " ">>},
      ci  \in {Absent, <<" ", "X">>},
      pc0 \in {None, <<"1", "0">>, <<"1", "0", " ", "-", "3">>, <<"1", "0", " ", " ", "-", "3">>},
      co  \in {Absent, None, <<" ">>, <<" ", "U", "S", " ">>} }
RichXmlDocs == {XmlDoc(<<>>)} \cup {XmlDoc(<<ent>>) : ent \in RichEnts}

\* One data line per combination of its cells; a header with or without
\* the zip4 column; a line with or without its last cell.
RichRows ==
  { Cells(f, m, l, o, cy, z, z4) :
      f  \in {<<>>, <<" ", "A", "l">>},
      m  \in {<<>>, <<" ", "M", " ">>},
      l  \in {<<>>, <<"L", "o">>},
      o  \in {NA, <<" ", "C", "o", " ">>},
      cy \in {<<>>, <<" ">>, <<" ", "O", "x", " ">>},
      z  \in {<<"1", "0">>, <<" ", "9", " ">>},
      z4 \in {<<>>, <<" ">>, <<"1", "2">>, <<" ", "1", "2", " ">>} }
RichTsvFiles ==
  {TsvFile(<<>>, <<>>), TsvFile(FullHeader, <<>>), TsvFile(FullHeader, <<<<>>>>)}
  \cup { TsvFile(SubSeq(FullHeader, 1, h), <<SubSeq(cells, 1, n)>>) :
           h \in {9, 10}, n \in {9, 10}, cells \in RichRows }

\* One block per combination of its lines, and the texts without a block.
RichTexts ==
  {<<>>, <<" ", "\n">>}
  \cup { name \o <<"\n">> \o street \o <<"\n">> \o county \o city \o <<",">>
           \o state \o gap \o <<"1", "0">> \o trail :
      name   \in {<<"A", "l", " ", "L", "o">>, <<"L", "o", ",", " ", "A", "l", " ">>},
      street \in {<<"4", " ", "M">>, <<" ", "4", " ", "M", " ">>},
      county \in {<<>>, <<"O", "X", " ", "C", "O", "U", "N", "T", "Y", "\n">>, <<" ", "C", "O", "U", "N", "T", "Y", " ", "O", "X", " ", "\n">>},
      city   \in {<<"X">>, <<" ", "X", " ">>},
      state  \in {<<"I", "L">>, <<" ", "I", "L">>},
      gap    \in {<<" ">>, <<" ", " ">>, <<"\t">>},
      trail  \in {<<>>, <<" ">>} }
RichTxtFiles == {TxtFile(text) : text \in RichTexts}

\* A command line of up to MaxFiles paths over the fixed files.
MixedInit ==
  /\ argv \in SeqsUpTo(Paths, MaxFiles) \ {<<>>}
  /\ fs = FixedFs

\* A command line of one path, which holds one of the rich files of its type.
RichInit ==
  \E path \in {XmlPath, TsvPath, TxtPath} :
    /\ argv = <<path>>
    /\ \E file \in (IF path = XmlPath THEN RichXmlDocs
                    ELSE IF path = TsvPath THEN RichTsvFiles ELSE RichTxtFiles) :
         fs = (path :> file) @@ FixedFs

\* argparse (nargs='+') leaves at least one path in args.files.
Init ==
  /\ MixedInit \/ RichInit
  /\ i = 1
  /\ file_paths = <<>>
  /\ pc = "loop"
  /\ stderr = <<>>
  /\ exit_code = 0
  /\ output = NotWritten
  /\ opened = <<>>

Spec == Init /\ [][Next]_vars

\* ------------------------------------------------------------------------
\* What the properties are stated with
\* ------------------------------------------------------------------------
\* The path ends in .xml, .tsv or .txt, compared character by character.
HasSupportedSuffix(path) ==
  /\ Len(path) >= 4
  /\ SubSeq(path, Len(path) - 3, Len(path)) \in {XmlSuffix, TsvSuffix, TxtSuffix}

\* The addresses the k-th path contributes: what its parser returns.
Contribution(k) ==
  IF HasSupportedSuffix(argv[k]) /\ ParsePath(argv[k]).ok
  THEN ParsePath(argv[k]).val ELSE <<>>

RECURSIVE ConcatUpTo(_)
\* The contributions of the first n paths, in argument order.
ConcatUpTo(n) == IF n = 0 THEN <<>> ELSE ConcatUpTo(n - 1) \o Contribution(n)

\* The paths among the first n of the given kind, in argument order.
PathsUpTo(n, supported) ==
  SelectSeq(SubSeq(argv, 1, n), LAMBDA q : HasSupportedSuffix(q) = supported)

\* The indices of the paths whose parser has been called.
Parsed ==
  {k \in 1..Len(argv) : HasSupportedSuffix(argv[k])
                        /\ (k < i \/ (k = i /\ pc = "exited"))}

\* The indices of the paths whose parser has returned.
ParsedOk == {k \in Parsed : ParsePath(argv[k]).ok}

Range(seq) == {seq[k] : k \in 1..Len(seq)}

\* How often r occurs in seq.
Count(seq, r) == Cardinality({k \in 1..Len(seq) : seq[k] = r})

\* The zip values of the addresses of seq.
Zips(seq) == {seq[k]["zip"] : k \in 1..Len(seq)}

\* The addresses of seq with the given zip, in the order of seq.
WithZip(seq, z) == SelectSeq(seq, LAMBDA r : r["zip"] = z)

\* ------------------------------------------------------------------------
\* C1: when the run completes, the list written to output.json is ascending
\* by zip under str comparison, and the addresses of each zip value appear
\* in the order they have in the concatenation of the files' addresses.
\* ------------------------------------------------------------------------
C1_SortedStable ==
  pc = "done" =>
    /\ \A k \in 1..(Len(output.data) - 1) :
         ~StrLess(output.data[k + 1]["zip"], output.data[k]["zip"])
    /\ \A z \in Zips(output.data) \cup Zips(ConcatUpTo(Len(argv))) :
         WithZip(output.data, z) = WithZip(ConcatUpTo(Len(argv)), z)

\* A completed run whose output has two different addresses of one zip, has
\* zip "10" before zip "9", and is not in the order of the concatenation.
C1_Witness ==
  /\ pc = "done"
  /\ \E j, k \in 1..Len(output.data) :
       /\ j < k
       /\ output.data[j]["zip"] = output.data[k]["zip"]
       /\ output.data[j] # output.data[k]
  /\ \E j, k \in 1..Len(output.data) :
       /\ j < k
       /\ output.data[j]["zip"] = <<"1", "0">>
       /\ output.data[k]["zip"] = <<"9">>
  /\ output.data # ConcatUpTo(Len(argv))

\* ------------------------------------------------------------------------
\* C2: when the parser of the N-th path raises, the run ends there with exit
\* code 1 and the path and cause as the last message on stderr: no later
\* path is handed to a parser, the accumulator still holds the unsorted
\* addresses of paths 1..N-1, output.json is not written, and no step
\* follows.  A run that goes past a path had no error on it.
\* ------------------------------------------------------------------------
C2_ErrorAborts ==
  /\ pc = "exited" =>
       /\ HasSupportedSuffix(argv[i])
       /\ ~ParsePath(argv[i]).ok
       /\ exit_code = 1
       /\ output = NotWritten
       /\ stderr # <<>>
       /\ stderr[Len(stderr)] = [msg |-> "Error processing", path |-> argv[i],
                                 cause |-> ParsePath(argv[i]).exc]
       /\ opened = PathsUpTo(i, TRUE)
       /\ file_paths = ConcatUpTo(i - 1)
       /\ ~ENABLED Next
  /\ pc # "exited" =>
       \A k \in 1..(i - 1) : HasSupportedSuffix(argv[k]) => ParsePath(argv[k]).ok

\* The second of three paths failed after the first contributed addresses
\* that are not in sorted order.
C2_Witness ==
  /\ pc = "exited"
  /\ i = 2
  /\ Len(argv) = 3
  /\ HasSupportedSuffix(argv[3])
  /\ file_paths # <<>>
  /\ file_paths # sort(file_paths)

\* ------------------------------------------------------------------------
\* C3: a path of no supported suffix gets one message on stderr and nothing
\* else: it is not handed to a parser, adds no address, never ends the run
\* and leaves the exit code 0; the paths after it are processed in order
\* and output.json is written.
\* ------------------------------------------------------------------------
C3_UnsupportedSkipped ==
  LET n == IF pc = "exited" THEN i ELSE i - 1
  IN  /\ SelectSeq(stderr, LAMBDA m : m.msg = "Unsupported file format")
           = [k \in 1..Len(PathsUpTo(n, FALSE)) |->
                [msg |-> "Unsupported file format",
                 path |-> PathsUpTo(n, FALSE)[k], cause |-> "none"]]
      /\ opened = PathsUpTo(n, TRUE)
      /\ pc = "loop" => file_paths = ConcatUpTo(n)
      /\ pc = "exited" => HasSupportedSuffix(argv[i])
      /\ exit_code = (IF pc = "exited" THEN 1 ELSE 0)
      /\ pc = "done" =>
           /\ n = Len(argv)
           /\ output.written
           /\ Len(output.data) = Len(ConcatUpTo(Len(argv)))

\* A completed run with an upper-case .XML path between two parsed files.
C3_Witness ==
  /\ pc = "done"
  /\ Len(argv) = 3
  /\ argv[2] = UpperPath
  /\ opened = <<argv[1], argv[3]>>
  /\ Len(output.data) = 4

\* ------------------------------------------------------------------------
\* C7: a run loses, duplicates and alters no address: in the loop the
\* accumulator is the concatenation of the contributions of the paths
\* passed, and after the sort the accumulator and the list written hold
\* every address as often as that concatenation does.
\* ------------------------------------------------------------------------
C7_NoLossNoDup ==
  LET all == ConcatUpTo(Len(argv))
      SameAddresses(seq) ==
        /\ Len(seq) = Len(all)
        /\ \A r \in Range(seq) \cup Range(all) : Count(seq, r) = Count(all, r)
  IN  /\ pc = "loop" => file_paths = ConcatUpTo(i - 1)
      /\ pc \in {"save", "done"} => SameAddresses(file_paths)
      /\ pc = "done" => SameAddresses(output.data)

\* A completed run of three files, one of them twice, whose output is not in
\* the order of the concatenation.
C7_Witness ==
  /\ pc = "done"
  /\ Len(output.data) = 6
  /\ \E r \in Range(output.data) : Count(output.data, r) = 2
  /\ \E r \in Range(output.data) : Count(output.data, r) = 1
  /\ output.data # ConcatUpTo(Len(argv))

\* ------------------------------------------------------------------------
\* C4: when the run completes, every address written has exactly one of the
\* keys name and organization.
\* ------------------------------------------------------------------------
C4_ExactlyOneIdentity ==
  pc = "done" =>
    \A k \in 1..Len(output.data) :
      ("name" \in DOMAIN output.data[k]) # ("organization" \in DOMAIN output.data[k])

\* ------------------------------------------------------------------------
\* C5: the parser of an empty but valid file (a document without entities,
\* a header without data lines, a text of whitespace only) returns no
\* address and raises nothing.
\* ------------------------------------------------------------------------
EmptyButValid(file) ==
  \/ file.type = "xml" /\ file.wellformed /\ file.ents = <<>>
  \/ file.type = "tsv" /\ file.header # <<>> /\ file.rows = <<>>
  \/ file.type = "txt" /\ strip(file.text) = <<>>

C5_EmptyFileNoRecords ==
  \A k \in Parsed :
    EmptyButValid(fs[argv[k]]) => ParsePath(argv[k]) = Ok(<<>>)

\* ------------------------------------------------------------------------
\* C6: no value of an address in the accumulator begins or ends with a
\* whitespace character.
\* ------------------------------------------------------------------------
Trimmed(v) ==
  \/ v = None
  \/ v = <<>>
  \/ ~IsSpace(v[1]) /\ ~IsSpace(v[Len(v)])

C6_ValuesTrimmed ==
  \A k \in 1..Len(file_paths) :
    \A key \in DOMAIN file_paths[k] : Trimmed(file_paths[k][key])

\* ------------------------------------------------------------------------
\* C8: for every data line of a parsed tab-separated file, the zip of its
\* address is the stripped zip, followed by '-' and the stripped zip4 when
\* the line has a zip4 that is not empty; it never ends with a bare '-'.
\* ------------------------------------------------------------------------
C8_TsvZip ==
  \A k \in ParsedOk :
    endswith(argv[k], TsvSuffix) =>
      LET rows == DictReader(fs[argv[k]])
      IN  \A j \in 1..Len(rows) :
            LET row == rows[j]
                zip == ParsePath(argv[k]).val[j]["zip"]
            IN  /\ zip = (IF "zip4" \in DOMAIN row /\ row["zip4"] # None
                             /\ row["zip4"] # <<>>
                          THEN strip(row["zip"]) \o <<"-">> \o strip(row["zip4"])
                          ELSE strip(row["zip"]))
                /\ zip # <<>> => zip[Len(zip)] # "-"

\* ------------------------------------------------------------------------
\* C9: for every block of a parsed text file: when the third line contains
\* COUNTY, county is that line without the token, stripped, and the fourth
\* line is the city/state/zip line; otherwise there is no county key and
\* the third line is the city/state/zip line.  city is the stripped text
\* before the comma, state and zip are the first and the second of the
\* whitespace-separated tokens after it.
\* ------------------------------------------------------------------------
RECURSIVE Tokens(_)
\* The maximal runs of characters of s that are not whitespace.
Tokens(s) ==
  LET t  == strip(s)
      sp == {k \in 1..Len(t) : IsSpace(t[k])}
  IN  IF t = <<>> THEN <<>>
      ELSE IF sp = {} THEN <<t>>
      ELSE <<SubSeq(t, 1, SetMin(sp) - 1)>> \o Tokens(SubSeq(t, SetMin(sp), Len(t)))

C9_TxtCountyAndCityStateZip ==
  \A k \in ParsedOk :
    endswith(argv[k], TxtSuffix) =>
      LET blocks == txt_blocks(fs[argv[k]].text)
      IN  \A j \in 1..Len(blocks) :
            LET lines  == split(blocks[j], <<"\n">>)
                rec    == ParsePath(argv[k]).val[j]
                county == contains(lines[3], COUNTY)
                csz    == IF county THEN lines[4] ELSE lines[3]
                comma  == find(csz, <<",">>)
                after  == Tokens(SubSeq(csz, comma + 1, Len(csz)))
            IN  /\ county => /\ "county" \in DOMAIN rec
                             /\ rec["county"] = strip(replace(lines[3], COUNTY, <<>>))
                /\ ~county => "county" \notin DOMAIN rec
                /\ rec["city"] = strip(SubSeq(csz, 1, comma - 1))
                /\ Len(after) >= 2
                /\ rec["state"] = after[1]
                /\ rec["zip"] = after[2]

\* ------------------------------------------------------------------------
\* C10: the COUNTRY child of an entity is optional: a document whose
\* entities have every other child parse_xml reads is parsed without an
\* error, and an address has the country key exactly when the COUNTRY child
\* is present with text that is not empty once stripped, which is then its
\* value.
\* ------------------------------------------------------------------------
\* The entity has NAME and COMPANY, has STREET, CITY, STATE and POSTAL_CODE
\* with text, and has no STREET_2 or STREET_3 without text.
CompleteButCountry(ent) ==
  /\ {"NAME", "COMPANY", "STREET", "CITY", "STATE", "POSTAL_CODE"} \subseteq DOMAIN ent
  /\ \A t \in {"STREET", "CITY", "STATE", "POSTAL_CODE"} : ent[t] # None
  /\ \A t \in {"STREET_2", "STREET_3"} \cap DOMAIN ent : ent[t] # None

C10_CountryOptional ==
  \A k \in Parsed :
    (endswith(argv[k], XmlSuffix) /\ fs[argv[k]].type = "xml"
       /\ fs[argv[k]].wellformed
       /\ \A e \in Range(fs[argv[k]].ents) : CompleteButCountry(e)) =>
      /\ ParsePath(argv[k]).ok
      /\ \A j \in 1..Len(fs[argv[k]].ents) :
           LET ent == fs[argv[k]].ents[j]
               rec == ParsePath(argv[k]).val[j]
               has == "COUNTRY" \in DOMAIN ent /\ Truthy(ent["COUNTRY"])
                        /\ strip(ent["COUNTRY"]) # <<>>
           IN  /\ ("country" \in DOMAIN rec) = has
               /\ has => rec["country"] = strip(ent["COUNTRY"])

=============================================================================
